---------------------------- MODULE Spec2Model ----------------------------
(***************************************************************************)
(* ReplyOptimizer: the two-level fleet reconciliation (SessionManager,     *)
(* SessionWorker), the mailbox poller (imap_worker) and the per-message    *)
(* pipeline (handle_message, send_reply) of src/worker/worker.py, with     *)
(* the Store of src/db_functions and the generation service of             *)
(* src/services/gemini.py.                                                 *)
(*                                                                         *)
(* Every asyncio task is a process whose position (pc) is the await it is  *)
(* suspended on; one action runs a task from one await to the next.        *)
(* task.cancel() makes the next step of the task the delivery of           *)
(* CancelledError at that await.                                           *)
(***************************************************************************)
EXTENDS Integers, Sequences, FiniteSets, TLC

\* ------------------------------------------------------------ bounds
MaxWorkers == 2
MaxTasks == 2
MaxStoreOps == 2
MaxMsgs == 2
MaxRows == 3

\* ------------------------------------------------------------ universes
Sessions == {"s1", "s2"}
Mails == {"a@x", "b@x", "c@y"}

\* imap_accounts.session of a mailbox row (mail is UNIQUE in the table).
Owner(m) == IF m = "c@y" THEN "s2" ELSE "s1"

WorkerIds == 1..MaxWorkers
TaskIds == 1..MaxTasks

VARIABLES
    users,      \* Store: the session ids of table users
    accounts,   \* Store: mail -> "none" | "ok" (host:port) | "bad" (no ':' in host)
    storeOps,   \* number of Store mutations made so far (bounded)
    db,         \* Store: table imap_messages, in msg_id order
    inbox,      \* IMAP server: mail -> sequence of [id, ref, seen]
    sessions,   \* SessionManager.sessions: session -> worker id (0: absent)
    mgr,        \* the manager loop (main / manager_loop) and its pass
    workers,    \* SessionWorker objects and their run tasks
    nWorkers,   \* SessionWorker objects constructed so far
    dd_closed,  \* worker -> the _post calls in flight on a closed ClientSession
    tasks,      \* imap_worker tasks
    nTasks,     \* imap_worker tasks created so far
    proc        \* handle_message / send_reply locals of each imap_worker task

vars == <<users, accounts, storeOps, db, inbox, sessions, mgr, workers,
          nWorkers, dd_closed, tasks, nTasks, proc>>

storeVars == <<users, accounts, storeOps>>
fleetVars == <<sessions, mgr, workers, nWorkers, dd_closed>>
mailVars == <<db, inbox, proc>>


\* ------------------------------------------------------------ records
NoData == [present |-> FALSE, acc |-> [m \in Mails |-> "none"]]

NoWorker ==
    [session |-> "", running |-> FALSE, dd |-> FALSE, lock |-> FALSE,
     tasks |-> [m \in Mails |-> 0], pc |-> "none", data |-> NoData,
     ts |-> {}, tp |-> {}]

NoTask ==
    [worker |-> 0, mail |-> "", endpoints |-> "ok", pc |-> "none",
     stop_event |-> FALSE, must_cancel |-> FALSE, cancel_called |-> FALSE,
     after |-> "", exit |-> ""]

\* What one invocation of handle_message did (reset when the next begins).
NoObs ==
    [result |-> "none", ins_in |-> 0, ins_out |-> 0, sends |-> 0, sent |-> 0,
     ctr_sent |-> 0, chk_ok |-> 0, chk_bad |-> 0, generated |-> FALSE,
     first_failed |-> FALSE]

NoProc ==
    [queue |-> <<>>, uid |-> 0, msg_id |-> 0, in_reply_to |-> 0, thread_id |-> 0,
     is_new |-> FALSE, conversation |-> <<>>, body |-> FALSE, status |-> "",
     attempt |-> 0, obs |-> NoObs]

NoMgr == [pc |-> "sleep", loaded |-> {}, todo |-> {}, stopping |-> 0, gathered |-> {}]

\* DatadogMetrics._post: the metric operation returns normally on a 2xx
\* response; on any other response, or a transport exception, it reaches
\* self.logger.warning, and DatadogMetrics has no attribute logger: the
\* AttributeError raised inside the except block leaves _post.
BackendResponses == {"2xx", "non2xx", "exception"}

DatadogPostNeverRaises(resp) == "return"

DatadogPost(resp) == IF resp = "2xx" THEN "return" ELSE "raise"

\* The awaits of a metric operation of self.dd: in imap_worker, handle_message
\* and send_reply, and in sync_accounts.
MetricPcs ==
    {"health", "inc_processed", "err_inc", "err_check", "cnt_outcome", "cnt_errtype",
     "hist_prompt", "hist_response", "cnt_sent", "chk_smtp_ok", "cnt_smtp_err",
     "chk_smtp_bad"}

PassMetricPcs == {"inc_started", "inc_stopped", "gauge"}

\* The _post calls in flight on the DatadogMetrics of worker w: those of its
\* imap_worker tasks, and 0 for the one of its sync_accounts pass.
Posting(w) ==
    {t \in TaskIds : tasks[t].worker = w /\ tasks[t].pc \in MetricPcs}
       \cup (IF workers[w].pc \in PassMetricPcs THEN {0} ELSE {})

\* The metric operations of the `except Exception` handlers of imap_worker
\* and of send_reply's attempt.
FailurePcs == {"err_inc", "err_check", "cnt_smtp_err", "chk_smtp_bad"}

\* The _post calls in flight whose ClientSession is closed.
ClosedPosts(w) == {r.post : r \in dd_closed[w]}

\* What ends the request of _post call p: the backend's answer, or the
\* connection lost when another _post call closed the ClientSession it uses.
Responses(w, p) ==
    BackendResponses \cup (IF p \in ClosedPosts(w) THEN {"closed"} ELSE {})

\* `async with await self._get_session() as session` is left, by return or by
\* an exception: the ClientSession is closed, with the connections of every
\* request in flight on it. _get_session makes a new one when self.session is
\* closed, so the calls in flight use the open one or one closed before.
\* For the call of an imap_worker task, failing tells that the call that
\* closed its session was made by the exception handling of another task.
PostEnds(w, p) ==
    dd_closed' = [dd_closed EXCEPT ![w] =
        IF p \in ClosedPosts(w)
        THEN {r \in @ : r.post # p}
        ELSE @ \cup
             {[post |-> q,
               failing |-> (p # 0 /\ q # 0 /\ tasks[p].pc \in FailurePcs)] :
                  q \in Posting(w) \ ({p} \cup ClosedPosts(w))}]

\* SessionWorker.__init__
NewWorker(s) ==
    [NoWorker EXCEPT !.session = s, !.running = TRUE, !.pc = "new"]

\* asyncio.create_task(imap_worker(...)) in sync_accounts
NewTask(w, m, ep) ==
    [NoTask EXCEPT !.worker = w, !.mail = m, !.endpoints = ep, !.pc = "start"]

\* stop_event.set(); task.cancel()   (cancel() of a finished task does nothing)
SetAndCancel(t) ==
    [t EXCEPT !.stop_event = TRUE,
              !.must_cancel = (t.pc # "done"),
              !.cancel_called = (t.cancel_called \/ t.pc # "done")]

TaskDone(t) == tasks[t].pc = "done"
TaskLive(t) == tasks[t].pc \notin {"none", "done"}
TaskSession(t) == workers[tasks[t].worker].session

Registered(wrec) == {m \in Mails : wrec.tasks[m] # 0}
RegisteredTasks(wrec) == {wrec.tasks[m] : m \in Registered(wrec)}

\* get_session(session): None without a users row, else the record with the
\* imap_accounts rows of that session.
get_session(s) ==
    IF s \in users
    THEN [present |-> TRUE,
          acc |-> [m \in Mails |-> IF Owner(m) = s THEN accounts[m] ELSE "none"]]
    ELSE NoData

\* ------------------------------------------------------------ Store
\* The administration surface and any other writer of users.db.
AddUser(s) ==
    /\ storeOps < MaxStoreOps
    /\ s \notin users
    /\ users' = users \cup {s}
    /\ storeOps' = storeOps + 1
    /\ UNCHANGED <<accounts, fleetVars, tasks, nTasks, mailVars>>

DeleteUser(s) ==
    /\ storeOps < MaxStoreOps
    /\ s \in users
    /\ users' = users \ {s}
    /\ storeOps' = storeOps + 1
    /\ UNCHANGED <<accounts, fleetVars, tasks, nTasks, mailVars>>

AddAccount(m, ep) ==
    /\ storeOps < MaxStoreOps
    /\ accounts[m] = "none"
    /\ accounts' = [accounts EXCEPT ![m] = ep]
    /\ storeOps' = storeOps + 1
    /\ UNCHANGED <<users, fleetVars, tasks, nTasks, mailVars>>

DeleteAccount(m) ==
    /\ storeOps < MaxStoreOps
    /\ accounts[m] # "none"
    /\ accounts' = [accounts EXCEPT ![m] = "none"]
    /\ storeOps' = storeOps + 1
    /\ UNCHANGED <<users, fleetVars, tasks, nTasks, mailVars>>

\* ------------------------------------------------------------ SessionManager
\* asyncio.gather(*tasks, return_exceptions=True) of stop(): pending until
\* every awaited task is done, then it returns the results, exceptions and
\* cancellations included, without raising.
GatherFirstException(S) ==
    IF \E t \in S : TaskDone(t) /\ tasks[t].exit \in {"exception", "cancelled"}
    THEN "raised"
    ELSE IF \A t \in S : TaskDone(t) THEN "returned" ELSE "pending"

GatherOutcome(S) ==
    IF \A t \in S : TaskDone(t) THEN "returned" ELSE "pending"

\* SessionWorker.stop up to its await: running = False, then stop_event.set()
\* and task.cancel() for every registered poller.
StopTasks(w) ==
    [t \in TaskIds |->
        IF t \in RegisteredTasks(workers[w]) THEN SetAndCancel(tasks[t]) ELSE tasks[t]]

\* The second loop of sync_sessions from its next session on: pop the worker,
\* call stop() and suspend on its gather; or end the pass (main then sleeps).
SyncSessionsStopNext(m, ws, reg) ==
    IF m.todo = {}
    THEN /\ mgr' = NoMgr
         /\ workers' = ws
         /\ sessions' = reg
         /\ UNCHANGED tasks
    ELSE \E s \in m.todo :
            LET w == reg[s] IN
            /\ sessions' = [reg EXCEPT ![s] = 0]
            /\ workers' = [ws EXCEPT ![w].running = FALSE]
            /\ tasks' = StopTasks(w)
            /\ mgr' = [m EXCEPT !.pc = "gather",
                                !.todo = m.todo \ {s}, !.stopping = w,
                                !.gathered = RegisteredTasks(workers[w])]

\* sync_sessions: the thread running _load_sessions reads table users.
SyncSessionsLoad ==
    /\ mgr.pc = "sleep"
    /\ mgr' = [mgr EXCEPT !.pc = "loaded", !.loaded = users]
    /\ UNCHANGED <<storeVars, sessions, workers, nWorkers, dd_closed, tasks, nTasks, mailVars>>

\* asyncio.run(manager_loop()), left by an exception of its main coroutine,
\* cancels every task that is still pending and runs the loop until they
\* have ended: a run task ends at once with CancelledError (sync_accounts and
\* run catch nothing), an imap_worker task goes through its handlers.
CancelAllTasks ==
    [t \in TaskIds |->
        IF TaskLive(t)
        THEN [tasks[t] EXCEPT !.must_cancel = TRUE, !.cancel_called = TRUE]
        ELSE tasks[t]]

CancelAllRuns ==
    [w \in WorkerIds |->
        IF workers[w].pc \in {"none", "exited", "crashed", "cancelled"}
        THEN workers[w]
        ELSE [workers[w] EXCEPT !.pc = "cancelled", !.lock = FALSE, !.data = NoData,
                                !.ts = {}, !.tp = {}]]

\* The _post call of a cancelled pass leaves its `async with`.
CancelAllPosts ==
    [w \in WorkerIds |->
        IF 0 \notin Posting(w) THEN dd_closed[w]
        ELSE IF 0 \in ClosedPosts(w) THEN {r \in dd_closed[w] : r.post # 0}
        ELSE dd_closed[w] \cup
               {[post |-> q, failing |-> FALSE] :
                   q \in Posting(w) \ ({0} \cup ClosedPosts(w))}]

\* _load_sessions raises (sqlite3 error): sync_sessions raises into
\* manager_loop, which has no handler: the loop ends and asyncio.run returns.
SyncSessionsLoadFails ==
    /\ mgr.pc = "sleep"
    /\ mgr' = [mgr EXCEPT !.pc = "crashed"]
    /\ workers' = CancelAllRuns
    /\ tasks' = CancelAllTasks
    /\ dd_closed' = CancelAllPosts
    /\ UNCHANGED <<storeVars, sessions, nWorkers, nTasks, mailVars>>

\* A first loop that constructs nothing.
CreateNoWorkers(todo, ws, reg, n) == [workers |-> ws, sessions |-> reg, n |-> n]

\* The workers the first loop of sync_sessions constructs, one per session of
\* the loaded set that is not registered, numbered in construction order.
RECURSIVE CreateWorkers(_, _, _, _)
CreateWorkers(todo, ws, reg, n) ==
    IF todo = {} THEN [workers |-> ws, sessions |-> reg, n |-> n]
    ELSE LET s == CHOOSE x \in todo : TRUE IN
         CreateWorkers(todo \ {s},
                       [ws EXCEPT ![n + 1] = NewWorker(s)],
                       [reg EXCEPT ![s] = n + 1],
                       n + 1)

\* A pass that constructs a worker for every session it loaded.
SyncSessionsResumeAll ==
    /\ mgr.pc = "loaded"
    /\ LET gone == {s \in Sessions : sessions[s] # 0 /\ s \notin mgr.loaded}
           made == CreateWorkers(mgr.loaded, workers, sessions, nWorkers)
       IN /\ nWorkers + Cardinality(mgr.loaded) <= MaxWorkers
          /\ nWorkers' = made.n
          /\ SyncSessionsStopNext([mgr EXCEPT !.todo = gone], made.workers, made.sessions)
    /\ UNCHANGED <<storeVars, dd_closed, nTasks, mailVars>>

\* sync_sessions resumes with the loaded set: creates and registers a worker
\* and its run task for every new session, then starts stopping the removed.
SyncSessionsResume ==
    /\ mgr.pc = "loaded"
    /\ LET new == {s \in mgr.loaded : sessions[s] = 0}
           gone == {s \in Sessions : sessions[s] # 0 /\ s \notin mgr.loaded}
           made == CreateWorkers(new, workers, sessions, nWorkers)
       IN /\ nWorkers + Cardinality(new) <= MaxWorkers
          /\ nWorkers' = made.n
          /\ SyncSessionsStopNext([mgr EXCEPT !.todo = gone], made.workers, made.sessions)
    /\ UNCHANGED <<storeVars, dd_closed, nTasks, mailVars>>

\* worker.stop() returns from its gather; sync_sessions goes on.
SyncSessionsStopped ==
    /\ mgr.pc = "gather"
    /\ GatherOutcome(mgr.gathered) # "pending"
    /\ IF GatherOutcome(mgr.gathered) = "raised"
       THEN /\ mgr' = [mgr EXCEPT !.pc = "crashed"]
            /\ UNCHANGED <<sessions, workers, tasks>>
       ELSE SyncSessionsStopNext([mgr EXCEPT !.stopping = 0, !.gathered = {}],
                                 workers, sessions)
    /\ UNCHANGED <<storeVars, nWorkers, dd_closed, nTasks, mailVars>>

\* ------------------------------------------------------------ SessionWorker
\* sync_accounts from the top of its first loop on, with ts = the mailboxes
\* still to start and tp = those still to stop: runs to the next await.
SyncAccountsNext(w, rec) ==
    IF rec.ts # {}
    THEN /\ nTasks < MaxTasks
         /\ \E m \in rec.ts :
              /\ nTasks' = nTasks + 1
              /\ tasks' = [tasks EXCEPT ![nTasks + 1] = NewTask(w, m, rec.data.acc[m])]
              /\ workers' = [workers EXCEPT ![w] =
                    [rec EXCEPT !.tasks[m] = nTasks + 1, !.ts = rec.ts \ {m},
                                !.pc = "inc_started"]]
    ELSE IF rec.tp # {}
    THEN \E m \in rec.tp :
              /\ tasks' = [tasks EXCEPT ![rec.tasks[m]] = SetAndCancel(@)]
              /\ workers' = [workers EXCEPT ![w] =
                    [rec EXCEPT !.tasks[m] = 0, !.tp = rec.tp \ {m},
                                !.pc = "inc_stopped"]]
              /\ UNCHANGED nTasks
    ELSE /\ workers' = [workers EXCEPT ![w] = [rec EXCEPT !.pc = "gauge"]]
         /\ UNCHANGED <<tasks, nTasks>>

\* A pass that waits for one lock shared by all workers.
RunSyncAccountsSharedLock(w) ==
    /\ workers[w].pc \in {"new", "sleep"}
    /\ workers[w].running
    /\ \A v \in WorkerIds : ~workers[v].lock
    /\ workers' = [workers EXCEPT ![w].pc = "get_session", ![w].lock = TRUE,
                                  ![w].data = get_session(workers[w].session)]
    /\ UNCHANGED <<storeVars, sessions, mgr, nWorkers, dd_closed, tasks, nTasks, mailVars>>

\* run: the loop test, then sync_accounts takes the lock and its thread
\* reads the tenant's record (get_session).
RunSyncAccounts(w) ==
    /\ workers[w].pc \in {"new", "sleep"}
    /\ workers[w].running
    /\ ~workers[w].lock
    /\ workers' = [workers EXCEPT ![w].pc = "get_session", ![w].lock = TRUE,
                                  ![w].data = get_session(workers[w].session)]
    /\ UNCHANGED <<storeVars, sessions, mgr, nWorkers, dd_closed, tasks, nTasks, mailVars>>

\* run: the loop test fails after stop(): the run task ends.
RunExit(w) ==
    /\ workers[w].pc \in {"new", "sleep"}
    /\ ~workers[w].running
    /\ workers' = [workers EXCEPT ![w].pc = "exited"]
    /\ UNCHANGED <<storeVars, sessions, mgr, nWorkers, dd_closed, tasks, nTasks, mailVars>>

\* get_session raises (sqlite3 error): sync_accounts leaves its lock and
\* raises into run, which has no handler: the run task ends.
SyncAccountsReadFails(w) ==
    /\ workers[w].pc \in {"new", "sleep"}
    /\ workers[w].running
    /\ ~workers[w].lock
    /\ workers' = [workers EXCEPT ![w].pc = "crashed"]
    /\ UNCHANGED <<storeVars, sessions, mgr, nWorkers, dd_closed, tasks, nTasks, mailVars>>

\* sync_accounts resumes with the record: returns when it is absent, else
\* sets up dd, computes desired - current and current - desired and goes on.
SyncAccountsResume(w) ==
    /\ workers[w].pc = "get_session"
    /\ LET rec == workers[w]
           desired == {m \in Mails : rec.data.acc[m] # "none"}
           current == Registered(rec)
       IN IF ~rec.data.present
          THEN /\ workers' = [workers EXCEPT ![w].pc = "sleep", ![w].lock = FALSE,
                                             ![w].data = NoData]
               /\ UNCHANGED <<tasks, nTasks>>
          ELSE SyncAccountsNext(w, [rec EXCEPT !.dd = TRUE,
                                               !.ts = desired \ current,
                                               !.tp = current \ desired])
    /\ UNCHANGED <<storeVars, sessions, mgr, nWorkers, dd_closed, mailVars>>

\* dd.increment("imap.accounts.started" / "imap.accounts.stopped") returns,
\* or raises and ends the pass and the run task.
SyncAccountsCounted(w) ==
    /\ workers[w].pc \in {"inc_started", "inc_stopped"}
    /\ \E resp \in Responses(w, 0) :
         IF DatadogPost(resp) = "return"
         THEN SyncAccountsNext(w, workers[w])
         ELSE /\ workers' = [workers EXCEPT ![w].pc = "crashed", ![w].lock = FALSE,
                                            ![w].data = NoData, ![w].ts = {}, ![w].tp = {}]
              /\ UNCHANGED <<tasks, nTasks>>
    /\ PostEnds(w, 0)
    /\ UNCHANGED <<storeVars, sessions, mgr, nWorkers, mailVars>>

\* dd.gauge("imap.accounts.active") returns: the pass ends, the lock is
\* released and run sleeps; or it raises and ends the run task.
SyncAccountsDone(w) ==
    /\ workers[w].pc = "gauge"
    /\ \E resp \in Responses(w, 0) :
         workers' = [workers EXCEPT
            ![w].pc = IF DatadogPost(resp) = "return" THEN "sleep" ELSE "crashed",
            ![w].lock = FALSE, ![w].data = NoData]
    /\ PostEnds(w, 0)
    /\ UNCHANGED <<storeVars, sessions, mgr, nWorkers, tasks, nTasks, mailVars>>

\* ------------------------------------------------------------ imap_worker
pollerFrame == <<storeVars, fleetVars, nTasks>>

\* What a step that ends a _post call leaves alone.
postFrame == <<storeVars, sessions, mgr, workers, nWorkers, nTasks>>

\* The task is suspended at await p and no cancellation is pending.
At(t, p) == tasks[t].pc = p /\ ~tasks[t].must_cancel

\* `while not stop_event.is_set()` of the outer loop, then IMAP4_SSL(...).
LoopTop(tr) ==
    IF tr.stop_event
    THEN [tr EXCEPT !.pc = "done", !.exit = "returned", !.after = ""]
    ELSE [tr EXCEPT !.pc = "connect", !.after = ""]

\* `while not stop_event.is_set()` of the inner loop: sleep 30, or leave the
\* try block normally into finally.
InnerLoop(tr) ==
    IF tr.stop_event
    THEN [tr EXCEPT !.pc = "logout", !.after = "loop"]
    ELSE [tr EXCEPT !.pc = "sleep30"]

\* `except Exception`: logger.exception, then await dd.increment("errors.total").
ExceptException(tr) == [tr EXCEPT !.pc = "err_inc"]

\* `finally`: await client.logout(), then what the try statement ends with.
Finally(tr, after) == [tr EXCEPT !.pc = "logout", !.after = after]

\* `except asyncio.CancelledError: break`, then finally.
ExceptCancelledAsException(tr) == ExceptException(tr)

ExceptCancelled(tr) == Finally(tr, "break")

\* After finally: loop again, leave the loop (the coroutine returns), or let
\* the exception in flight end the task.
AfterFinally(tr) ==
    CASE tr.after = "loop" -> LoopTop(tr)
      [] tr.after = "break" -> [tr EXCEPT !.pc = "done", !.exit = "returned", !.after = ""]
      [] tr.after = "raise" -> [tr EXCEPT !.pc = "done", !.exit = "exception", !.after = ""]
      [] OTHER -> [tr EXCEPT !.pc = "done", !.exit = "cancelled", !.after = ""]

\* The awaits of the try block, those of handle_message and send_reply included.
HandlePcs ==
    {"fetch", "lookup", "history", "gemini", "ins_in", "cnt_outcome", "cnt_errtype",
     "hist_prompt", "hist_response", "ins_out", "send", "cnt_sent", "chk_smtp_ok",
     "cnt_smtp_err", "chk_smtp_bad", "sleep1"}

TryPcs == {"connect", "health", "sleep30", "search", "store", "inc_processed"} \cup HandlePcs

\* The awaits of the `except Exception` block.
HandlerPcs == {"err_inc", "err_check", "backoff"}

\* First step of the task: the two split(":") of lines 242-243 raise
\* ValueError for an endpoint without its port; else the outer loop begins.
ImapStart(t) ==
    /\ At(t, "start")
    /\ tasks' = [tasks EXCEPT ![t] =
          IF tasks[t].endpoints = "bad"
          THEN [@ EXCEPT !.pc = "done", !.exit = "exception"]
          ELSE LoopTop(@)]
    /\ UNCHANGED <<pollerFrame, mailVars>>

\* wait_hello_from_server, login and select("INBOX") all return.
ImapConnected(t) ==
    /\ At(t, "connect")
    /\ tasks' = [tasks EXCEPT ![t].pc = "health"]
    /\ UNCHANGED <<pollerFrame, mailVars>>

\* One of them raises (network, authentication).
ImapConnectFails(t) ==
    /\ At(t, "connect")
    /\ tasks' = [tasks EXCEPT ![t] = ExceptException(@)]
    /\ UNCHANGED <<pollerFrame, mailVars>>

\* dd.service_check("imap.health", 0) ends; the inner loop begins.
ImapHealthy(t) ==
    /\ At(t, "health")
    /\ \E resp \in Responses(tasks[t].worker, t) :
         tasks' = [tasks EXCEPT ![t] =
            IF DatadogPost(resp) = "return" THEN InnerLoop(@) ELSE ExceptException(@)]
    /\ PostEnds(tasks[t].worker, t)
    /\ UNCHANGED <<postFrame, mailVars>>

\* asyncio.sleep(30) ends; client.search("UNSEEN") is sent.
ImapSlept(t) ==
    /\ At(t, "sleep30")
    /\ tasks' = [tasks EXCEPT ![t].pc = "search"]
    /\ UNCHANGED <<pollerFrame, mailVars>>

\* ------------------------------------------------------------ mailboxes, threads
\* Message-ID of the n-th message delivered; In-Reply-To 0 is an absent
\* header and ZRef the Message-ID of a message this system never saw.
ZRef == MaxMsgs + 1

RECURSIVE TotalMsgs(_)
TotalMsgs(S) ==
    IF S = {} THEN 0
    ELSE LET m == CHOOSE x \in S : TRUE IN Len(inbox[m]) + TotalMsgs(S \ {m})

\* A message is delivered to a polled mailbox.
NewMail(m) ==
    /\ TotalMsgs(Mails) < MaxMsgs
    /\ \E t \in TaskIds : tasks[t].mail = m
    /\ \E ref \in (0..TotalMsgs(Mails)) \cup {ZRef} :
         inbox' = [inbox EXCEPT ![m] = Append(@,
            [id |-> TotalMsgs(Mails) + 1, ref |-> ref, seen |-> FALSE, last |-> "new"])]
    /\ UNCHANGED <<storeVars, fleetVars, tasks, nTasks, db, proc>>

\* client.search("UNSEEN"): the sequence numbers of the unseen messages.
UnseenUids(box) ==
    SelectSeq([i \in 1..Len(box) |-> i], LAMBDA i : ~box[i].seen)

SetLast(m, uid, v) == [inbox EXCEPT ![m][uid].last = v]

\* The thread's rows read newest first.
ThreadRowsNewestFirst(tid) ==
    LET sel == SelectSeq([i \in 1..Len(db) |-> i], LAMBDA i : db[i].thread_id = tid)
    IN SortSeq([k \in 1..Len(sel) |-> db[sel[k]].msg_id], LAMBDA a, b : a > b)

\* SELECT ... FROM imap_messages WHERE thread_id = ? ORDER BY msg_id ASC
ThreadRows(tid) ==
    LET sel == SelectSeq([i \in 1..Len(db) |-> i], LAMBDA i : db[i].thread_id = tid)
    IN SortSeq([k \in 1..Len(sel) |-> db[sel[k]].msg_id], LAMBDA a, b : a < b)

\* SELECT session FROM imap_messages WHERE thread_id = ?  (fetchone)
ThreadFound(tid) == \E i \in 1..Len(db) : db[i].thread_id = tid

\* insert_message(session, thread_id, msg_type, ...): the row the INSERT
\* adds, with the msg_id that AUTOINCREMENT gives it (no row is ever deleted).
Row(t, type) ==
    [msg_id |-> Len(db) + 1,
     thread_id |-> proc[t].thread_id, session |-> TaskSession(t), type |-> type,
     mail |-> tasks[t].mail, msg |-> proc[t].msg_id]

\* ------------------------------------------------------------ gemini_answer
ProviderResults ==
    {"db_error", "client_error", "api_error", "not_json", "json_not_object",
     "body_false", "body_empty", "body_not_text", "body_text"}

Outcomes ==
    {"success", "user_not_found", "provider_error", "invalid_json", "filtered",
     "empty_body"}

Answer(body, status) == [raised |-> FALSE, body |-> body, status |-> status]

\* gemini_answer(text, conversation, session): user is get_session(session);
\* pr is what the Store, the client constructor and the provider do.
gemini_answer(user, pr) ==
    IF pr = "db_error" THEN [raised |-> TRUE, body |-> FALSE, status |-> ""]
    ELSE IF ~user THEN Answer(FALSE, "user_not_found")
    ELSE CASE pr = "client_error" -> [raised |-> TRUE, body |-> FALSE, status |-> ""]
           [] pr = "api_error" -> Answer(FALSE, "provider_error")
           [] pr = "not_json" -> Answer(FALSE, "invalid_json")
           [] pr = "json_not_object" -> [raised |-> TRUE, body |-> FALSE, status |-> ""]
           [] pr = "body_false" -> Answer(FALSE, "filtered")
           [] pr = "body_empty" -> Answer(FALSE, "empty_body")
           [] pr = "body_not_text" -> [raised |-> TRUE, body |-> FALSE, status |-> ""]
           [] OTHER -> Answer(TRUE, "success")

\* ------------------------------------------------------------ imap_worker: polling
\* handle_message(uid) is called: its locals, and the record of what it does.
BeginHandle(uids) ==
    [NoProc EXCEPT !.queue = Tail(uids), !.uid = Head(uids),
                   !.obs = [NoObs EXCEPT !.result = "running"]]

\* client.search returns: `continue` on an empty result, else handle_message
\* of the first uid begins with client.fetch.
ImapSearched(t) ==
    /\ At(t, "search")
    /\ LET uids == UnseenUids(inbox[tasks[t].mail]) IN
       IF uids = <<>>
       THEN /\ tasks' = [tasks EXCEPT ![t] = InnerLoop(@)]
            /\ UNCHANGED proc
       ELSE /\ tasks' = [tasks EXCEPT ![t].pc = "fetch"]
            /\ proc' = [proc EXCEPT ![t] = BeginHandle(uids)]
    /\ UNCHANGED <<pollerFrame, db, inbox>>

ImapSearchFails(t) ==
    /\ At(t, "search")
    /\ tasks' = [tasks EXCEPT ![t] = ExceptException(@)]
    /\ UNCHANGED <<pollerFrame, mailVars>>

\* client.store(uid, "+FLAGS", "\\Seen") returns.
ImapStored(t) ==
    /\ At(t, "store")
    /\ inbox' = [inbox EXCEPT ![tasks[t].mail][proc[t].uid].seen = TRUE]
    /\ tasks' = [tasks EXCEPT ![t].pc = "inc_processed"]
    /\ UNCHANGED <<pollerFrame, db, proc>>

ImapStoreFails(t) ==
    /\ At(t, "store")
    /\ tasks' = [tasks EXCEPT ![t] = ExceptException(@)]
    /\ UNCHANGED <<pollerFrame, mailVars>>

\* dd.increment("emails.processed") ends: the next uid, or the inner loop.
ImapProcessed(t) ==
    /\ At(t, "inc_processed")
    /\ \E resp \in Responses(tasks[t].worker, t) :
         IF DatadogPost(resp) = "raise"
         THEN /\ tasks' = [tasks EXCEPT ![t] = ExceptException(@)]
              /\ UNCHANGED proc
         ELSE IF proc[t].queue = <<>>
         THEN /\ tasks' = [tasks EXCEPT ![t] = InnerLoop(@)]
              /\ UNCHANGED proc
         ELSE /\ tasks' = [tasks EXCEPT ![t].pc = "fetch"]
              /\ proc' = [proc EXCEPT ![t] = BeginHandle(@.queue)]
    /\ PostEnds(tasks[t].worker, t)
    /\ UNCHANGED <<postFrame, db, inbox>>

\* `except Exception`: dd.increment("errors.total") ends; an exception raised
\* here is in flight through finally.
ImapErrorCounted(t) ==
    /\ At(t, "err_inc")
    /\ \E resp \in Responses(tasks[t].worker, t) :
         tasks' = [tasks EXCEPT ![t] =
            IF DatadogPost(resp) = "return" THEN [@ EXCEPT !.pc = "err_check"]
            ELSE Finally(@, "raise")]
    /\ PostEnds(tasks[t].worker, t)
    /\ UNCHANGED <<postFrame, mailVars>>

\* dd.service_check("imap.health", 2) ends.
ImapErrorChecked(t) ==
    /\ At(t, "err_check")
    /\ \E resp \in Responses(tasks[t].worker, t) :
         tasks' = [tasks EXCEPT ![t] =
            IF DatadogPost(resp) = "return" THEN [@ EXCEPT !.pc = "backoff"]
            ELSE Finally(@, "raise")]
    /\ PostEnds(tasks[t].worker, t)
    /\ UNCHANGED <<postFrame, mailVars>>

\* asyncio.sleep(5) ends; finally.
ImapBackedOff(t) ==
    /\ At(t, "backoff")
    /\ tasks' = [tasks EXCEPT ![t] = Finally(@, "loop")]
    /\ UNCHANGED <<pollerFrame, mailVars>>

\* A finally block that lets the exception of a failed logout out.
LogoutEndsRaising(tr, ok) ==
    IF ok THEN AfterFinally(tr)
    ELSE [tr EXCEPT !.pc = "done", !.exit = "exception", !.after = ""]

\* `try: await client.logout()  except Exception: pass`: whether logout
\* returned (ok) or raised, the try statement ends as it was going to.
LogoutEnds(tr, ok) == AfterFinally(tr)

\* client.logout() returns, or raises an Exception that is passed over.
ImapLoggedOut(t) ==
    /\ At(t, "logout")
    /\ \E ok \in BOOLEAN : tasks' = [tasks EXCEPT ![t] = LogoutEnds(@, ok)]
    /\ UNCHANGED <<pollerFrame, mailVars>>

\* ------------------------------------------------------------ handle_message
\* A poller that passes over what handle_message raises and goes on to
\* client.store.
HandleRaisedPassedOver(t, pr) ==
    /\ tasks' = [tasks EXCEPT ![t].pc = "store"]
    /\ proc' = [proc EXCEPT ![t] = [pr EXCEPT !.obs.result = "raised"]]
    /\ inbox' = SetLast(tasks[t].mail, proc[t].uid, "raised")

\* An exception leaves handle_message: the poller's `except Exception`.
HandleRaised(t, pr) ==
    /\ tasks' = [tasks EXCEPT ![t] = ExceptException(@)]
    /\ proc' = [proc EXCEPT ![t] = [pr EXCEPT !.obs.result = "raised"]]
    /\ inbox' = SetLast(tasks[t].mail, proc[t].uid, "raised")

\* handle_message returns: the poller goes on to client.store.
HandleReturned(t, pr) ==
    /\ tasks' = [tasks EXCEPT ![t].pc = "store"]
    /\ proc' = [proc EXCEPT ![t] = [pr EXCEPT !.obs.result = "returned"]]
    /\ inbox' = SetLast(tasks[t].mail, proc[t].uid, "returned")

\* handle_message goes on to its next await.
HandleGoes(t, pc, pr) ==
    /\ tasks' = [tasks EXCEPT ![t].pc = pc]
    /\ proc' = [proc EXCEPT ![t] = pr]
    /\ UNCHANGED inbox

\* client.fetch, a query of imap_messages or an insert raises.
HandleFails(t) ==
    /\ tasks[t].pc \in {"fetch", "lookup", "history", "ins_in", "ins_out"}
    /\ ~tasks[t].must_cancel
    /\ HandleRaised(t, proc[t])
    /\ UNCHANGED <<pollerFrame, db>>

\* client.fetch returns; Message-ID and In-Reply-To are read. Without
\* In-Reply-To the thread is the message's own and the history is empty.
HandleFetched(t) ==
    /\ At(t, "fetch")
    /\ LET msg == inbox[tasks[t].mail][proc[t].uid]
           pr == [proc[t] EXCEPT !.msg_id = msg.id, !.in_reply_to = msg.ref]
       IN IF msg.ref # 0
          THEN HandleGoes(t, "lookup", pr)
          ELSE HandleGoes(t, "gemini", [pr EXCEPT !.thread_id = msg.id, !.is_new = TRUE])
    /\ UNCHANGED <<pollerFrame, db>>

\* A correlation that files every reply under its reference.
CorrelateAlwaysInherits(pr, row) ==
    [pr EXCEPT !.thread_id = pr.in_reply_to, !.is_new = ~row]

\* thread_id = in_reply_to if row else msg_id; is_new = not bool(row)
Correlate(pr, row) ==
    [pr EXCEPT !.thread_id = IF row THEN pr.in_reply_to ELSE pr.msg_id,
               !.is_new = ~row]

\* The lookup of a row with thread_id = in_reply_to returns.
HandleLooked(t) ==
    /\ At(t, "lookup")
    /\ LET pr == Correlate(proc[t], ThreadFound(proc[t].in_reply_to)) IN
       HandleGoes(t, IF pr.is_new THEN "gemini" ELSE "history", pr)
    /\ UNCHANGED <<pollerFrame, db>>

\* The query of the thread's rows returns.
HandleHistory(t) ==
    /\ At(t, "history")
    /\ HandleGoes(t, "gemini", [proc[t] EXCEPT !.conversation = ThreadRows(proc[t].thread_id)])
    /\ UNCHANGED <<pollerFrame, db>>

\* gemini_answer returns (body, status), and send_reply starts with the
\* insert of the incoming message; or it raises.
HandleGenerated(t) ==
    /\ At(t, "gemini")
    /\ \E p \in ProviderResults :
         LET r == gemini_answer(TaskSession(t) \in users, p) IN
         IF r.raised
         THEN HandleRaised(t, proc[t])
         ELSE HandleGoes(t, "ins_in",
                [proc[t] EXCEPT !.body = r.body, !.status = r.status,
                                !.obs.generated = TRUE])
    /\ UNCHANGED <<pollerFrame, db>>

\* ------------------------------------------------------------ send_reply
\* A send_reply that persists the incoming message only when there is a reply.
SendReplyIncomingIfBody(t) ==
    /\ At(t, "ins_in")
    /\ Len(db) < MaxRows
    /\ IF proc[t].body
       THEN /\ db' = Append(db, Row(t, "incoming"))
            /\ HandleGoes(t, "cnt_outcome", [proc[t] EXCEPT !.obs.ins_in = @ + 1])
       ELSE /\ db' = db
            /\ HandleGoes(t, "cnt_outcome", proc[t])
    /\ UNCHANGED pollerFrame

\* insert_message_async(..., "incoming", ...) returns.
SendReplyIncoming(t) ==
    /\ At(t, "ins_in")
    /\ Len(db) < MaxRows
    /\ db' = Append(db, Row(t, "incoming"))
    /\ HandleGoes(t, "cnt_outcome", [proc[t] EXCEPT !.obs.ins_in = @ + 1])
    /\ UNCHANGED pollerFrame

\* dd.increment("gemini.outcome") ends; `if not body` chooses the branch.
SendReplyOutcomeCounted(t) ==
    /\ At(t, "cnt_outcome")
    /\ \E resp \in Responses(tasks[t].worker, t) :
         IF DatadogPost(resp) = "raise" THEN HandleRaised(t, proc[t])
         ELSE HandleGoes(t, IF ~proc[t].body THEN "cnt_errtype" ELSE "hist_prompt", proc[t])
    /\ PostEnds(tasks[t].worker, t)
    /\ UNCHANGED <<postFrame, db>>

\* No body: dd.increment("errors.by_type") ends, the warning, return.
SendReplyDropped(t) ==
    /\ At(t, "cnt_errtype")
    /\ \E resp \in Responses(tasks[t].worker, t) :
         IF DatadogPost(resp) = "raise" THEN HandleRaised(t, proc[t])
         ELSE HandleReturned(t, proc[t])
    /\ PostEnds(tasks[t].worker, t)
    /\ UNCHANGED <<postFrame, db>>

\* dd.histogram("gemini.prompt.chars"), then ("gemini.response.chars"), end;
\* after the second the outgoing message is inserted.
SendReplyMeasured(t) ==
    /\ tasks[t].pc \in {"hist_prompt", "hist_response"}
    /\ ~tasks[t].must_cancel
    /\ \E resp \in Responses(tasks[t].worker, t) :
         IF DatadogPost(resp) = "raise" THEN HandleRaised(t, proc[t])
         ELSE HandleGoes(t, IF tasks[t].pc = "hist_prompt" THEN "hist_response"
                            ELSE "ins_out", proc[t])
    /\ PostEnds(tasks[t].worker, t)
    /\ UNCHANGED <<postFrame, db>>

\* insert_message_async(..., "outcoming", ...) returns; the message is built
\* and attempt 1 calls aiosmtplib.send.
SendReplyOutgoing(t) ==
    /\ At(t, "ins_out")
    /\ Len(db) < MaxRows
    /\ db' = Append(db, Row(t, "outcoming"))
    /\ HandleGoes(t, "send", [proc[t] EXCEPT !.attempt = 1, !.obs.ins_out = @ + 1,
                                             !.obs.sends = @ + 1])
    /\ UNCHANGED pollerFrame

\* aiosmtplib.send returns: the reply is delivered.
SendReplySent(t) ==
    /\ At(t, "send")
    /\ HandleGoes(t, "cnt_sent", [proc[t] EXCEPT !.obs.sent = @ + 1])
    /\ UNCHANGED <<pollerFrame, db>>

\* aiosmtplib.send raises: `except Exception` of the attempt.
SendReplySendFails(t) ==
    /\ At(t, "send")
    /\ HandleGoes(t, "cnt_smtp_err",
          [proc[t] EXCEPT !.obs.first_failed = (@ \/ proc[t].attempt = 1)])
    /\ UNCHANGED <<pollerFrame, db>>

\* dd.increment("smtp.sent") ends; it is inside the try of the attempt, so
\* what it raises is handled as a failed attempt.
SendReplySentCounted(t) ==
    /\ At(t, "cnt_sent")
    /\ \E resp \in Responses(tasks[t].worker, t) :
         IF DatadogPost(resp) = "raise" THEN HandleGoes(t, "cnt_smtp_err", proc[t])
         ELSE HandleGoes(t, "chk_smtp_ok", [proc[t] EXCEPT !.obs.ctr_sent = @ + 1])
    /\ PostEnds(tasks[t].worker, t)
    /\ UNCHANGED <<postFrame, db>>

\* dd.service_check("smtp.health", 0) ends, inside the same try; then the
\* info entry and `break`: send_reply and handle_message return.
SendReplySentChecked(t) ==
    /\ At(t, "chk_smtp_ok")
    /\ \E resp \in Responses(tasks[t].worker, t) :
         IF DatadogPost(resp) = "raise" THEN HandleGoes(t, "cnt_smtp_err", proc[t])
         ELSE HandleReturned(t, [proc[t] EXCEPT !.obs.chk_ok = @ + 1])
    /\ PostEnds(tasks[t].worker, t)
    /\ UNCHANGED <<postFrame, db>>

\* `except Exception` of the attempt: dd.increment("errors.total") ends; what
\* it raises leaves send_reply; else attempt 2 goes on to its check and
\* attempt 1 to the sleep.
SendReplyErrorCounted(t) ==
    /\ At(t, "cnt_smtp_err")
    /\ \E resp \in Responses(tasks[t].worker, t) :
         IF DatadogPost(resp) = "raise" THEN HandleRaised(t, proc[t])
         ELSE HandleGoes(t, IF proc[t].attempt = 2 THEN "chk_smtp_bad" ELSE "sleep1", proc[t])
    /\ PostEnds(tasks[t].worker, t)
    /\ UNCHANGED <<postFrame, db>>

\* Attempt 2: dd.service_check("smtp.health", 2) ends, then `raise` (or the
\* check's own exception) leaves send_reply.
SendReplyFailed(t) ==
    /\ At(t, "chk_smtp_bad")
    /\ \E resp \in Responses(tasks[t].worker, t) :
         HandleRaised(t, IF DatadogPost(resp) = "raise" THEN proc[t]
                         ELSE [proc[t] EXCEPT !.obs.chk_bad = @ + 1])
    /\ PostEnds(tasks[t].worker, t)
    /\ UNCHANGED <<postFrame, db>>

\* asyncio.sleep(1) ends; attempt 2 calls aiosmtplib.send.
SendReplyRetry(t) ==
    /\ At(t, "sleep1")
    /\ HandleGoes(t, "send", [proc[t] EXCEPT !.attempt = 2, !.obs.sends = @ + 1])
    /\ UNCHANGED <<pollerFrame, db>>

\* ------------------------------------------------------------ cancellation
\* CancelledError is raised at the await the task is suspended on. An
\* operation already handed to a thread or to the network (an insert, a
\* send, a store) may or may not take effect.
ImapCancelled(t) ==
    /\ tasks[t].must_cancel
    /\ tasks[t].pc # "done"
    /\ LET tr == [tasks[t] EXCEPT !.must_cancel = FALSE]
           pc == tasks[t].pc
           m == tasks[t].mail
       IN \E eff \in BOOLEAN :
          LET row == eff /\ pc \in {"ins_in", "ins_out"} /\ Len(db) < MaxRows IN
          /\ tasks' = [tasks EXCEPT ![t] =
                CASE pc = "start" -> [tr EXCEPT !.pc = "done", !.exit = "cancelled"]
                  [] pc = "logout" -> [tr EXCEPT !.pc = "done", !.exit = "cancelled",
                                                 !.after = ""]
                  [] pc \in HandlerPcs -> Finally(tr, "cancel")
                  [] OTHER -> ExceptCancelled(tr)]
          /\ db' = IF row
                   THEN Append(db, Row(t, IF pc = "ins_in" THEN "incoming" ELSE "outcoming"))
                   ELSE db
          /\ proc' = IF pc \in HandlePcs
                     THEN [proc EXCEPT
                            ![t].obs.result = "cancelled",
                            ![t].obs.ins_in = IF row /\ pc = "ins_in" THEN @ + 1 ELSE @,
                            ![t].obs.ins_out = IF row /\ pc = "ins_out" THEN @ + 1 ELSE @,
                            ![t].obs.sent = IF eff /\ pc = "send" THEN @ + 1 ELSE @]
                     ELSE proc
          /\ inbox' = IF pc \in HandlePcs
                      THEN SetLast(m, proc[t].uid, "cancelled")
                      ELSE IF eff /\ pc = "store"
                      THEN [inbox EXCEPT ![m][proc[t].uid].seen = TRUE]
                      ELSE inbox
    /\ IF tasks[t].pc \in MetricPcs
       THEN PostEnds(tasks[t].worker, t)
       ELSE UNCHANGED dd_closed
    /\ UNCHANGED postFrame

\* ------------------------------------------------------------ the fleet
\* The process starts with an empty registry; users.db holds what the
\* administration surface wrote before; no mail arrives.
Init ==
    /\ users = {"s1"}
    /\ accounts = [m \in Mails |-> IF m = "a@x" THEN "ok" ELSE "none"]
    /\ storeOps = 0
    /\ db = <<>>
    /\ inbox = [m \in Mails |-> <<>>]
    /\ sessions = [s \in Sessions |-> 0]
    /\ mgr = NoMgr
    /\ workers = [w \in WorkerIds |-> NoWorker]
    /\ nWorkers = 0
    /\ dd_closed = [w \in WorkerIds |-> {}]
    /\ tasks = [t \in TaskIds |-> NoTask]
    /\ nTasks = 0
    /\ proc = [t \in TaskIds |-> NoProc]

StoreNext ==
    \/ \E s \in Sessions : AddUser(s)
    \/ \E s \in Sessions : DeleteUser(s)
    \/ \E m \in Mails, ep \in {"ok", "bad"} : AddAccount(m, ep)
    \/ \E m \in Mails : DeleteAccount(m)

ManagerNext ==
    \/ SyncSessionsLoad
    \/ SyncSessionsLoadFails
    \/ SyncSessionsResume
    \/ SyncSessionsStopped

WorkerNext ==
    \/ \E w \in WorkerIds : RunSyncAccounts(w)
    \/ \E w \in WorkerIds : RunExit(w)
    \/ \E w \in WorkerIds : SyncAccountsReadFails(w)
    \/ \E w \in WorkerIds : SyncAccountsResume(w)
    \/ \E w \in WorkerIds : SyncAccountsCounted(w)
    \/ \E w \in WorkerIds : SyncAccountsDone(w)

ConnectionNext ==
    \/ \E t \in TaskIds : ImapStart(t)
    \/ \E t \in TaskIds : ImapConnected(t)
    \/ \E t \in TaskIds : ImapConnectFails(t)
    \/ \E t \in TaskIds : ImapHealthy(t)
    \/ \E t \in TaskIds : ImapSlept(t)
    \/ \E t \in TaskIds : ImapSearched(t)
    \/ \E t \in TaskIds : ImapSearchFails(t)
    \/ \E t \in TaskIds : ImapErrorCounted(t)
    \/ \E t \in TaskIds : ImapErrorChecked(t)
    \/ \E t \in TaskIds : ImapBackedOff(t)
    \/ \E t \in TaskIds : ImapLoggedOut(t)
    \/ \E t \in TaskIds : ImapCancelled(t)

Next == StoreNext \/ ManagerNext \/ WorkerNext \/ ConnectionNext

Spec == Init /\ [][Next]_vars

\* ------------------------------------------------------------ the pollers
\* One tenant with one mailbox, at the first await of its worker's first
\* pass: the poller of that mailbox was just created and registered. Mail
\* arrives, the poller polls and processes it, and when the tenant is deleted
\* from the Store the manager stops its worker.
InitPollers ==
    /\ users = {"s1"}
    /\ accounts = [m \in Mails |-> IF m = "a@x" THEN "ok" ELSE "none"]
    /\ storeOps = 0
    /\ db = <<>>
    /\ inbox = [m \in Mails |-> <<>>]
    /\ sessions = [s \in Sessions |-> IF s = "s1" THEN 1 ELSE 0]
    /\ mgr = NoMgr
    /\ workers = [w \in WorkerIds |->
          IF w = 1
          THEN [NewWorker("s1") EXCEPT !.dd = TRUE, !.lock = TRUE, !.pc = "inc_started",
                                       !.data = get_session("s1"), !.tasks["a@x"] = 1]
          ELSE NoWorker]
    /\ nWorkers = 1
    /\ dd_closed = [w \in WorkerIds |-> {}]
    /\ tasks = [t \in TaskIds |-> IF t = 1 THEN NewTask(1, "a@x", "ok") ELSE NoTask]
    /\ nTasks = 1
    /\ proc = [t \in TaskIds |-> NoProc]

MessageNext ==
    \/ \E m \in Mails : NewMail(m)
    \/ \E t \in TaskIds : ImapStored(t)
    \/ \E t \in TaskIds : ImapStoreFails(t)
    \/ \E t \in TaskIds : ImapProcessed(t)
    \/ \E t \in TaskIds : HandleFails(t)
    \/ \E t \in TaskIds : HandleFetched(t)
    \/ \E t \in TaskIds : HandleLooked(t)
    \/ \E t \in TaskIds : HandleHistory(t)
    \/ \E t \in TaskIds : HandleGenerated(t)
    \/ \E t \in TaskIds : SendReplyIncoming(t)
    \/ \E t \in TaskIds : SendReplyOutcomeCounted(t)
    \/ \E t \in TaskIds : SendReplyDropped(t)
    \/ \E t \in TaskIds : SendReplyMeasured(t)
    \/ \E t \in TaskIds : SendReplyOutgoing(t)
    \/ \E t \in TaskIds : SendReplySent(t)
    \/ \E t \in TaskIds : SendReplySendFails(t)
    \/ \E t \in TaskIds : SendReplySentCounted(t)
    \/ \E t \in TaskIds : SendReplySentChecked(t)
    \/ \E t \in TaskIds : SendReplyErrorCounted(t)
    \/ \E t \in TaskIds : SendReplyFailed(t)
    \/ \E t \in TaskIds : SendReplyRetry(t)

StopNext ==
    \/ \E s \in Sessions : DeleteUser(s)
    \/ SyncSessionsLoad
    \/ SyncSessionsResume
    \/ SyncSessionsStopped

NextPollers == ConnectionNext \/ MessageNext \/ StopNext

SpecPollers == InitPollers /\ [][NextPollers]_vars

\* ------------------------------------------------------------ fairness
\* The event loop runs every task that is ready: a poller whose await has
\* ended, or that has a cancellation to receive, takes its next step.
PollerStep(t) ==
    \/ ImapStart(t) \/ ImapConnected(t) \/ ImapConnectFails(t) \/ ImapHealthy(t)
    \/ ImapSlept(t) \/ ImapSearched(t) \/ ImapSearchFails(t) \/ ImapErrorCounted(t)
    \/ ImapErrorChecked(t) \/ ImapBackedOff(t) \/ ImapLoggedOut(t) \/ ImapCancelled(t)
    \/ ImapStored(t) \/ ImapStoreFails(t) \/ ImapProcessed(t) \/ HandleFails(t)
    \/ HandleFetched(t) \/ HandleLooked(t) \/ HandleHistory(t) \/ HandleGenerated(t)
    \/ SendReplyIncoming(t) \/ SendReplyOutcomeCounted(t) \/ SendReplyDropped(t)
    \/ SendReplyMeasured(t) \/ SendReplyOutgoing(t) \/ SendReplySent(t)
    \/ SendReplySendFails(t) \/ SendReplySentCounted(t) \/ SendReplySentChecked(t)
    \/ SendReplyErrorCounted(t) \/ SendReplyFailed(t) \/ SendReplyRetry(t)

SpecPollersFair == SpecPollers /\ \A t \in TaskIds : WF_vars(PollerStep(t))

\* ------------------------------------------------------------ two tenants
\* Two tenants with one mailbox each, after the first pass of each worker:
\* both pollers are connected and polling, and share table imap_messages.
InitThreads ==
    /\ users = {"s1", "s2"}
    /\ accounts = [m \in Mails |-> IF m \in {"a@x", "c@y"} THEN "ok" ELSE "none"]
    /\ storeOps = 0
    /\ db = <<>>
    /\ inbox = [m \in Mails |-> <<>>]
    /\ sessions = [s \in Sessions |-> IF s = "s1" THEN 1 ELSE 2]
    /\ mgr = NoMgr
    /\ workers = [w \in WorkerIds |->
          IF w = 1
          THEN [NewWorker("s1") EXCEPT !.dd = TRUE, !.pc = "sleep", !.tasks["a@x"] = 1]
          ELSE IF w = 2
          THEN [NewWorker("s2") EXCEPT !.dd = TRUE, !.pc = "sleep", !.tasks["c@y"] = 2]
          ELSE NoWorker]
    /\ nWorkers = 2
    /\ dd_closed = [w \in WorkerIds |-> {}]
    /\ tasks = [t \in TaskIds |->
          IF t = 1 THEN [NewTask(1, "a@x", "ok") EXCEPT !.pc = "sleep30"]
          ELSE IF t = 2 THEN [NewTask(2, "c@y", "ok") EXCEPT !.pc = "sleep30"]
          ELSE NoTask]
    /\ nTasks = 2
    /\ proc = [t \in TaskIds |-> NoProc]

\* The polling cycle of a connected poller; a poller whose cycle raises is
\* followed no further here (SpecPollers follows it).
PollingNext ==
    \/ \E t \in TaskIds : ImapSlept(t)
    \/ \E t \in TaskIds : ImapSearched(t)
    \/ \E t \in TaskIds : ImapSearchFails(t)

NextThreads == PollingNext \/ MessageNext

SpecThreads == InitThreads /\ [][NextThreads]_vars

\* ------------------------------------------------------------ claims
\* The mailboxes of tenant s with an imap_worker task that has not terminated.
LiveTasks(s, m) ==
    {t \in TaskIds : TaskLive(t) /\ TaskSession(t) = s /\ tasks[t].mail = m}

\* C1: at every instant, for every (tenant, mailbox) pair, at most one
\* imap_worker task that has not yet terminated exists.
C1_OnePollerPerMailbox ==
    \A s \in Sessions, m \in Mails : Cardinality(LiveTasks(s, m)) <= 1

\* The pollers of worker w that are running: started by w, not terminated
\* and not cancelled.
RunningMails(w) ==
    {m \in Mails : \E t \in TaskIds :
        /\ tasks[t].worker = w /\ tasks[t].mail = m
        /\ TaskLive(t) /\ ~tasks[t].cancel_called}

StoreMails(s) == {m \in Mails : Owner(m) = s /\ accounts[m] # "none"}

\* C2: when a sync_accounts pass of a worker that has not been stopped ends
\* (its gauge returns) for a tenant whose record is present, holds only
\* host:port endpoints and was not changed since the pass read it, the
\* mailboxes with a running poller are exactly those of the Store record.
C2_SetEquality ==
    [][\A w \in WorkerIds :
          ( /\ workers[w].pc = "gauge"
            /\ workers'[w].pc = "sleep"
            /\ workers[w].running
            /\ workers[w].data.present
            /\ workers[w].data = get_session(workers[w].session)
            /\ \A m \in StoreMails(workers[w].session) : accounts[m] = "ok" )
          => RunningMails(w)' = StoreMails(workers[w].session)]_vars

\* A SessionWorker whose run loop or reconciliation pass is still executing.
Executing(w) == workers[w].pc \notin {"none", "exited", "crashed", "cancelled"}

\* C3: at every instant, for every tenant id, at most one SessionWorker
\* whose run loop or pass is still executing exists.
C3_OneWorkerPerTenant ==
    \A w1, w2 \in WorkerIds :
        (w1 # w2 /\ Executing(w1) /\ Executing(w2))
        => workers[w1].session # workers[w2].session

\* The uids the poller is processing or has yet to process in this cycle.
Pending(t) == {proc[t].uid} \cup {proc[t].queue[i] : i \in 1..Len(proc[t].queue)}

Ended(t) == proc[t].obs.result \in {"returned", "raised"}

\* C5: for an outcome other than success no outgoing row is appended and no
\* send attempted; for success at most one outgoing row is appended, a
\* second send happens only after the first attempt failed, and processing
\* that returned appended exactly one outgoing row and sent once or twice.
C5_OutcomeGating ==
    \A t \in TaskIds : proc[t].obs.generated =>
        LET o == proc[t].obs IN
        IF proc[t].status # "success"
        THEN o.ins_out = 0 /\ o.sends = 0
        ELSE /\ o.ins_out <= 1 /\ o.sends <= 2
             /\ (o.sends = 2 => o.first_failed)
             /\ (o.result = "returned" => o.ins_out = 1 /\ o.sends >= 1)

\* The thread's full ordered message sequence, as positions of imap_messages.
RECURSIVE ThreadSequence(_, _)
ThreadSequence(tid, n) ==
    IF n = 0 THEN <<>>
    ELSE IF db[n].thread_id = tid THEN Append(ThreadSequence(tid, n - 1), n)
    ELSE ThreadSequence(tid, n - 1)

\* The awaits of handle_message after the thread has been determined.
CorrelatedPcs == HandlePcs \ {"fetch", "lookup", "history"}

\* C6: with a reference R whose thread exists, the message is filed under R
\* and generation gets that thread's full ordered sequence; with a reference
\* to no known thread, or without reference, the message is filed under its
\* own identifier (never R) and generation gets an empty history; the
\* incoming row is appended to that thread.
C6_ThreadCorrelation ==
    \A t \in TaskIds : tasks[t].pc \in CorrelatedPcs =>
        LET msg == inbox[tasks[t].mail][proc[t].uid]
            R == msg.ref
            found == R # 0 /\ \E i \in 1..Len(db) : db[i].thread_id = R
        IN /\ found =>
                /\ proc[t].thread_id = R
                /\ tasks[t].pc = "gemini"
                      => proc[t].conversation = ThreadSequence(R, Len(db))
           /\ ~found =>
                /\ proc[t].thread_id = msg.id
                /\ proc[t].thread_id # R
                /\ proc[t].conversation = <<>>
           /\ tasks[t].pc = "cnt_outcome" =>
                /\ db[Len(db)].type = "incoming"
                /\ db[Len(db)].msg = msg.id
                /\ db[Len(db)].thread_id = (IF found THEN R ELSE msg.id)

\* C6: generation is about to be called for a reply to a known thread, with
\* that thread's two earlier messages as history.
C6_KnownThread ==
    \E t \in TaskIds :
        /\ tasks[t].pc = "gemini"
        /\ proc[t].in_reply_to # 0
        /\ proc[t].thread_id = proc[t].in_reply_to
        /\ Len(proc[t].conversation) = 2

\* C7: at most two attempts; if the first attempt failed and the second
\* delivered the reply, processing returns normally with one outgoing row,
\* one success counter and one healthy check; if both failed, processing
\* raises after the unhealthy check was reported.
C7_DeliveryRetry ==
    \A t \in TaskIds :
        LET o == proc[t].obs IN
        /\ o.sends <= 2
        /\ (Ended(t) /\ o.first_failed /\ o.sends = 2 /\ o.sent = 1)
              => ( /\ o.result = "returned" /\ o.ins_out = 1
                   /\ o.ctr_sent = 1 /\ o.chk_ok = 1 )
        /\ (Ended(t) /\ o.sends = 2 /\ o.sent = 0)
              => (o.result = "raised" /\ o.chk_bad = 1)

\* C8: a poller task ends only through cancellation.
C8_EndsOnlyByCancellation ==
    \A t \in TaskIds : TaskDone(t) => tasks[t].cancel_called

\* C9: once its stop signal is set and it is cancelled, the poller ends; on
\* the way it neither sleeps the backoff nor opens a connection; once ended
\* it does nothing more.
C9_CancelTerminates ==
    /\ \A t \in TaskIds : (tasks[t].cancel_called /\ tasks[t].stop_event) ~> TaskDone(t)
    /\ [][\A t \in TaskIds :
            /\ (tasks[t].cancel_called /\ tasks[t].stop_event /\ tasks'[t].pc # tasks[t].pc)
                  => tasks'[t].pc \in {"logout", "done"}
            /\ TaskDone(t) =>
                  (TaskDone(t)' /\ tasks'[t].exit = tasks[t].exit /\ proc'[t] = proc[t]
                   /\ db' = db
                   /\ \A u \in 1..Len(inbox[tasks[t].mail]) :
                         inbox'[tasks[t].mail][u] = inbox[tasks[t].mail][u])]_vars

\* C9: a poller cancelled while it processed a message has ended.
C9_CancelledWhileProcessing ==
    \E t \in TaskIds :
        /\ TaskDone(t) /\ tasks[t].cancel_called
        /\ proc[t].obs.result = "cancelled"

\* stop() of a worker returns: the manager leaves the gather of that worker.
StopReturns == mgr.pc = "gather" /\ (mgr'.pc # "gather" \/ mgr'.stopping # mgr.stopping)

\* C10: stop() marks the worker non-running and sets the stop signal of and
\* cancels every registered poller; it returns only when every one of these
\* tasks has finished; it never raises, whatever the tasks ended with.
C10_StopGathers ==
    /\ [](mgr.pc = "gather" =>
            /\ ~workers[mgr.stopping].running
            /\ \A t \in mgr.gathered :
                  tasks[t].stop_event /\ (tasks[t].cancel_called \/ TaskDone(t)))
    /\ [](~(mgr.pc = "crashed" /\ mgr.stopping # 0))
    /\ [][ /\ (mgr'.pc = "gather" /\ mgr'.stopping # mgr.stopping)
                => mgr'.gathered = RegisteredTasks(workers[mgr'.stopping])
           /\ StopReturns => \A t \in mgr.gathered : TaskDone(t) ]_vars

\* C10: stop() is waiting for a poller while another of its pollers has
\* already ended with an exception.
C10_AwaitsAfterFailure ==
    /\ mgr.pc = "gather"
    /\ \E t1, t2 \in mgr.gathered :
          /\ TaskDone(t1) /\ tasks[t1].exit = "exception"
          /\ TaskLive(t2)

\* SessionManager.sessions.keys()
RegistryKeys == {s \in Sessions : sessions[s] # 0}

\* A sync_sessions pass ends: the manager goes back to its sleep.
PassEnds == mgr.pc \in {"loaded", "gather"} /\ mgr'.pc = "sleep"

\* C11: when a sync_sessions pass ends, the registry's keys are the ids the
\* pass read; every id read and not registered got a new worker with its run
\* task; every registered id not read left the registry when its worker's
\* stop() was called, and the pass went on only after that stop() returned.
C11_RegistryEqualsLoaded ==
    [][ /\ PassEnds => RegistryKeys' = mgr.loaded
        /\ (mgr.pc = "loaded" /\ mgr'.pc # "loaded") =>
              \A s \in mgr.loaded : sessions[s] = 0 =>
                 /\ sessions'[s] # 0
                 /\ workers[sessions'[s]] = NoWorker
                 /\ workers'[sessions'[s]].session = s
                 /\ workers'[sessions'[s]].pc = "new"
        /\ (mgr'.pc = "gather" /\ mgr'.stopping # mgr.stopping) =>
              \E s \in Sessions \ mgr'.loaded :
                 /\ sessions'[s] = 0
                 /\ s \notin mgr'.todo
                 /\ ~workers'[mgr'.stopping].running
                 /\ workers'[mgr'.stopping].session = s ]_vars

\* C11: a pass has ended that stopped one worker and left another registered.
C11_PassCreatedAndStopped ==
    /\ mgr.pc = "sleep"
    /\ RegistryKeys # {}
    /\ \E w \in WorkerIds :
          /\ workers[w].pc # "none" /\ ~workers[w].running
          /\ sessions[workers[w].session] # w

\* The read of a sync_sessions pass ends without a loaded set.
ReadAborted == mgr.pc = "sleep" /\ mgr' # mgr /\ mgr'.pc # "loaded"

\* C12: a sync_sessions pass whose read of the tenant set fails changes
\* neither the registry nor any worker or poller, and the manager loop goes
\* on to its next cycle.
C12_ReadFailureRetried ==
    [][ReadAborted =>
          /\ sessions' = sessions /\ workers' = workers /\ tasks' = tasks
          /\ mgr'.pc = "sleep"]_vars

\* The Store read of a sync_accounts pass ends without a record or None.
PassReadAborted(w) ==
    /\ workers[w].pc \in {"new", "sleep"}
    /\ workers'[w].pc \notin {"new", "sleep", "get_session", "exited", "cancelled"}

\* C13: a sync_accounts pass whose read of the tenant's record fails leaves
\* the poller registry as it was, and the run loop goes on to its sleep and
\* its next pass.
C13_PassReadFailureRetried ==
    [][\A w \in WorkerIds : PassReadAborted(w) =>
          /\ workers'[w].tasks = workers[w].tasks
          /\ tasks' = tasks
          /\ workers'[w].pc = "sleep"]_vars

\* The awaits of sync_accounts, all inside `async with self.lock`.
PassPcs == {"get_session", "inc_started", "inc_stopped", "gauge"}

\* C14: a worker is inside a pass exactly while it holds its own lock, from
\* the Store read to the final gauge, and it holds one pass at a time; a
\* worker whose run loop is due can start its pass, and a pass at its read or
\* its gauge can go on, whatever the passes of the other workers wait for.
C14_PassesSerialized ==
    \A w \in WorkerIds :
        /\ workers[w].lock <=> workers[w].pc \in PassPcs
        /\ (workers[w].pc \in {"new", "sleep"} /\ workers[w].running)
              => ENABLED RunSyncAccounts(w)
        /\ (workers[w].pc = "get_session" /\ nTasks < MaxTasks)
              => ENABLED SyncAccountsResume(w)
        /\ workers[w].pc = "gauge" => ENABLED SyncAccountsDone(w)

\* C14: the pass of one tenant is suspended on its Store read while the pass
\* of another tenant is suspended on a metrics call.
C14_TwoTenantsInPass ==
    \E w1, w2 \in WorkerIds :
        /\ workers[w1].session # workers[w2].session
        /\ workers[w1].pc = "get_session"
        /\ workers[w2].pc \in {"inc_started", "inc_stopped", "gauge"}

\* The rows of imap_messages holding the incoming message msg of thread tid.
IncomingRows(tid, msg) ==
    {i \in 1..Len(db) : db[i].type = "incoming" /\ db[i].thread_id = tid /\ db[i].msg = msg}

\* The awaits of send_reply after the insert of the incoming message.
AfterIncomingPcs == CorrelatedPcs \ {"gemini", "ins_in"}

\* C15: whatever outcome generation returned, the invocation has appended
\* the incoming message to its thread once before it is at the outcome
\* counter or at any later await, before any outgoing row and any send, and
\* when it has returned.
C15_IncomingPersisted ==
    \A t \in TaskIds :
        LET o == proc[t].obs
            past == \/ tasks[t].pc \in AfterIncomingPcs
                    \/ o.result = "returned"
                    \/ o.ins_out > 0 \/ o.sends > 0
        IN /\ o.generated => proc[t].status \in Outcomes
           /\ o.ins_in <= 1
           /\ (o.generated /\ past) =>
                 /\ o.ins_in = 1
                 /\ IncomingRows(proc[t].thread_id, proc[t].msg_id) # {}

\* C15: processing has returned for a message whose reply was filtered, and
\* the incoming message is in its thread.
C15_DroppedButPersisted ==
    \E t \in TaskIds :
        /\ proc[t].obs.result = "returned"
        /\ proc[t].status = "filtered"
        /\ IncomingRows(proc[t].thread_id, proc[t].msg_id) # {}

\* C16: however often a message is processed, imap_messages holds at most
\* one incoming row for it.
C16_IngestionIdempotent ==
    \A m \in Mails : \A u \in 1..Len(inbox[m]) :
        Cardinality({i \in 1..Len(db) :
            db[i].type = "incoming" /\ db[i].msg = inbox[m][u].id}) <= 1

\* handle_message(uid) is called again for the uid of the invocation before.
ProcessedAgain(t) ==
    /\ tasks[t].pc # "fetch" /\ tasks'[t].pc = "fetch"
    /\ proc'[t].uid = proc[t].uid

\* C17: with a non-success outcome, processing that has persisted the
\* incoming message ends by returning; the poller's client.store then marks
\* the message seen; and the poller does not process that message again.
C17_DroppedNotRetried ==
    /\ [](\A t \in TaskIds :
            ( /\ proc[t].obs.generated /\ proc[t].status # "success"
              /\ proc[t].obs.ins_in = 1 /\ Ended(t) )
               => proc[t].obs.result = "returned")
    /\ [][\A t \in TaskIds :
            ( /\ proc[t].obs.generated /\ proc[t].status # "success"
              /\ proc[t].obs.result = "returned" ) =>
               /\ (tasks[t].pc = "store" /\ tasks'[t].pc = "inc_processed")
                     => inbox'[tasks[t].mail][proc[t].uid].seen
               /\ ~ProcessedAgain(t)]_vars

\* The request of a metric call of poller u, made in its exception handler,
\* is in flight on a ClientSession that the exception handling of another
\* mailbox's poller closed.
ClosedByFailure(u) ==
    /\ tasks[u].pc \in {"err_inc", "err_check"}
    /\ ~tasks[u].must_cancel
    /\ \E r \in dd_closed[tasks[u].worker] : r.post = u /\ r.failing

\* C18: a failure confined to one (tenant, mailbox) pair never halts or blocks
\* the others: the poller of a mailbox is not ended by what the failure
\* handling of another mailbox's poller did, every poller that has not ended
\* can take its next step whatever state the others are in (in backoff,
\* failed, being stopped), and the manager, when it stops a worker, waits
\* only for pollers it has cancelled and goes on once they have ended.
C18_FailureIsolation ==
    /\ [][\A u \in TaskIds : ClosedByFailure(u) => tasks'[u].after # "raise"]_vars
    /\ [](\A u \in TaskIds : TaskLive(u) => ENABLED PollerStep(u))
    /\ [](mgr.pc = "gather" =>
            /\ \A t \in mgr.gathered : TaskDone(t) \/ tasks[t].cancel_called
            /\ (\A t \in mgr.gathered : TaskDone(t)) => ENABLED SyncSessionsStopped)

\* C19: every metric operation is fire-and-forget: whatever the backend
\* answers (non-2xx, transport exception), the operation returns and its
\* caller goes on: the pass is not ended, the poller's try block is not left
\* for its exception handler, no exception leaves the handler, message
\* processing does not raise, and a delivered reply is not counted as a
\* failed attempt.
C19_FireAndForget ==
    [][/\ \A w \in WorkerIds :
            workers[w].pc \in PassMetricPcs => workers'[w].pc # "crashed"
       /\ \A t \in TaskIds :
            (tasks[t].pc \in MetricPcs /\ ~tasks[t].must_cancel) =>
               /\ tasks[t].pc \in {"health", "inc_processed"}
                     => tasks'[t].pc # "err_inc"
               /\ tasks[t].pc \in {"err_inc", "err_check"}
                     => tasks'[t].after # "raise"
               /\ tasks[t].pc \in {"cnt_outcome", "cnt_errtype", "hist_prompt",
                                    "hist_response", "cnt_smtp_err"}
                     => proc'[t].obs.result # "raised"
               /\ tasks[t].pc \in {"cnt_sent", "chk_smtp_ok"}
                     => tasks'[t].pc # "cnt_smtp_err"]_vars

\* C20: the generation call never raises: whatever the Store, the client
\* constructor and the provider do, the call returns (body, outcome) with
\* outcome one of the six codes and a body exactly for "success", so message
\* processing always goes on from the call to the insert of the incoming
\* message.
C20_GenerationNeverRaises ==
    [][\A t \in TaskIds :
          (At(t, "gemini") /\ tasks'[t].pc # "gemini") =>
             /\ tasks'[t].pc = "ins_in"
             /\ proc'[t].obs.generated
             /\ proc'[t].status \in Outcomes
             /\ proc'[t].body <=> proc'[t].status = "success"]_vars

\* The thread ids a row can carry: the Message-IDs of the messages delivered
\* and the one of a message this system never saw.
ThreadIds == 1..ZRef

\* C21: the rows of a thread are read in strictly increasing msg_id order,
\* which is the order of their appends, whichever pollers made them; every
\* row carries one thread id, and no step changes or removes a row.
C21_ThreadOrdering ==
    /\ [](/\ \A i, j \in 1..Len(db) : i < j => db[i].msg_id < db[j].msg_id
          /\ \A i \in 1..Len(db) : db[i].thread_id \in ThreadIds
          /\ \A tid \in ThreadIds :
                LET r == ThreadRows(tid)
                    a == ThreadSequence(tid, Len(db))
                IN /\ \A k \in 1..(Len(r) - 1) : r[k] < r[k + 1]
                   /\ r = [k \in 1..Len(a) |-> db[a[k]].msg_id])
    /\ [][/\ Len(db') >= Len(db)
          /\ \A i \in 1..Len(db) : db'[i] = db[i]]_vars

\* C21: a thread holds two rows of one tenant, and a poller of the other
\* tenant appended a row between them.
C21_InterleavedAppends ==
    \E i, j, k \in 1..Len(db) :
        /\ i < j /\ j < k
        /\ db[i].thread_id = db[k].thread_id
        /\ db[i].session = db[k].session
        /\ db[j].session # db[i].session

\* C22: a pass of sync_sessions that loaded exactly the sessions the registry
\* holds constructs no worker, starts no run task, stops no worker or poller
\* and leaves the registry as it is; loading by itself changes nothing but
\* the pass's own set.
C22_PassIdempotent ==
    [][/\ (mgr.pc = "sleep" /\ mgr'.pc = "loaded") =>
             /\ mgr'.loaded = users
             /\ sessions' = sessions /\ workers' = workers /\ tasks' = tasks
             /\ nWorkers' = nWorkers
       /\ (mgr.pc = "loaded" /\ mgr.loaded = RegistryKeys /\ mgr'.pc # "loaded") =>
             /\ mgr' = NoMgr
             /\ sessions' = sessions /\ workers' = workers /\ tasks' = tasks
             /\ nWorkers' = nWorkers /\ nTasks' = nTasks]_vars

\* C22: a pass has loaded the sessions of a registry that is not empty and
\* whose worker runs a poller.
C22_NothingToDo ==
    /\ mgr.pc = "loaded"
    /\ mgr.loaded = RegistryKeys
    /\ RegistryKeys # {}
    /\ \E t \in TaskIds : TaskLive(t)

\* C23: a poller leaves connecting or polling only through one logout of its
\* connection: it reaches a new connection or its end from no await but the
\* logout (or from the start of the task, which has no connection), and what
\* follows the logout is what the exit was going to do, whether the logout
\* returned or failed: the next connection after a handled failure, the end
\* of the task after a stop or a cancellation, the exception in flight.
C23_LogoutOnEveryExit ==
    [][\A t \in TaskIds :
          /\ (tasks'[t].pc # tasks[t].pc /\ tasks'[t].pc \in {"connect", "done"})
                => tasks[t].pc \in {"start", "logout"}
          /\ (tasks[t].pc \in TryPcs \cup HandlerPcs /\ tasks'[t].pc # tasks[t].pc)
                => tasks'[t].pc \in TryPcs \cup HandlerPcs \cup {"logout"}
          /\ (At(t, "logout") /\ tasks'[t].pc # "logout") =>
                CASE tasks[t].after = "loop" ->
                        IF tasks[t].stop_event
                        THEN tasks'[t].pc = "done" /\ tasks'[t].exit = "returned"
                        ELSE tasks'[t].pc = "connect"
                  [] tasks[t].after = "break" ->
                        tasks'[t].pc = "done" /\ tasks'[t].exit = "returned"
                  [] tasks[t].after = "raise" ->
                        tasks'[t].pc = "done" /\ tasks'[t].exit = "exception"
                  [] OTHER ->
                        tasks'[t].pc = "done" /\ tasks'[t].exit = "cancelled"]_vars

\* C23: the poller is at the logout of a connection it leaves with an
\* exception in flight.
C23_LogoutAfterException ==
    \E t \in TaskIds : At(t, "logout") /\ tasks[t].after = "raise"

\* stop() has been called on worker w (running is set to False nowhere else).
StopCalled(w) == workers[w].pc # "none" /\ ~workers[w].running

\* C24: after stop() was called a worker creates no imap_worker task, also
\* when a pass of its sync_accounts was suspended at that moment; and once
\* stop() has returned none of its pollers is running.
C24_NoPollerAfterStop ==
    /\ [][\A w \in WorkerIds : StopCalled(w) =>
             \A t \in TaskIds :
                (tasks[t].pc = "none" /\ tasks'[t].pc # "none") => tasks'[t].worker # w]_vars
    /\ [](\A w \in WorkerIds : (StopCalled(w) /\ mgr.stopping # w) =>
             \A t \in TaskIds : tasks[t].worker = w => ~TaskLive(t))

\* C25: thread correlation is confined to the owning tenant: the rows of one
\* thread all belong to one tenant, and the conversation passed to
\* gemini_answer on behalf of a tenant holds rows of that tenant only.
C25_TenantConfinement ==
    /\ \A i, j \in 1..Len(db) :
          db[i].thread_id = db[j].thread_id => db[i].session = db[j].session
    /\ \A t \in TaskIds : tasks[t].pc = "gemini" =>
          \A k \in 1..Len(proc[t].conversation) :
             db[proc[t].conversation[k]].session = TaskSession(t)

\* handle_message has been called for message u of mailbox m.
Attempted(m, u) ==
    \/ inbox[m][u].last # "new"
    \/ \E t \in TaskIds : /\ tasks[t].mail = m /\ tasks[t].pc \in HandlePcs
                          /\ proc[t].uid = u

\* Message 2 of the mailbox of poller t waits behind message 1: both are in
\* the mailbox, message 1 is unseen, and handle_message was never called for
\* message 2.
WaitsBehind(t) ==
    /\ tasks[t].pc # "none"
    /\ Len(inbox[tasks[t].mail]) >= 2
    /\ ~inbox[tasks[t].mail][1].seen
    /\ ~Attempted(tasks[t].mail, 2)

\* C26: a first message that the poller keeps taking up again (the
\* connection is re-established after every error and each search returns it,
\* since every attempt to process it raised) does not keep the message that
\* follows it in the search result from being processed.
C26_NoHeadOfLineBlocking ==
    \A t \in TaskIds :
        ([]<>(tasks[t].pc = "fetch" /\ proc[t].uid = 1)) =>
            (WaitsBehind(t) ~> ~WaitsBehind(t))

\* C27: within one invocation of handle_message aiosmtplib.send returns
\* successfully at most once, and after it has returned no further send is
\* attempted in that invocation.
C27_SendSucceedsOnce ==
    /\ [](\A t \in TaskIds : proc[t].obs.sent <= 1)
    /\ [][\A t \in TaskIds :
            (proc[t].obs.sent >= 1 /\ proc'[t].obs.result = proc[t].obs.result)
               => proc'[t].obs.sends = proc[t].obs.sends]_vars

\* C28: an invocation of handle_message that has ended (returned, raised or
\* was cancelled) has inserted no more outgoing rows than it has delivered
\* replies.
C28_OutgoingMeansDelivered ==
    \A t \in TaskIds :
        proc[t].obs.result \in {"returned", "raised", "cancelled"}
            => proc[t].obs.ins_out <= proc[t].obs.sent

============================================================================
